---- MODULE Spec2Model ----
(***************************************************************************)
(* Model of softnet: an L2 filtering proxy between one VM and a vmnet      *)
(* interface.  The module models the rule table built by Proxy::new, the   *)
(* VM->host filter (src/lib/proxy/vm.rs), the host->VM path with DHCP      *)
(* snooping (src/lib/proxy/host.rs, src/lib/dhcp_snooper.rs) and the       *)
(* frame pump that feeds them (src/lib/proxy/mod.rs).                      *)
(***************************************************************************)
EXTENDS Integers, Sequences, FiniteSets, TLC

VARIABLES
    allow,      \* the allow argument of Proxy::new: a set of networks
    block,      \* the block argument of Proxy::new: a set of networks
    rules,      \* Proxy.rules: PrefixMap<Ipv4Net, Action>, a map prefix -> action
    vm_lease,   \* DhcpSnooper.vm_lease: Option<Lease>
    now,        \* the reading of Instant::now()
    run,        \* Proxy::run: "running", or how it ended
    dir,        \* which side the last frame was read from: "none", "vm", "host"
    frame,      \* the last frame read from an fd: Option<frame>
    snooped,    \* the payload handed to register_dhcp_reply for that frame: Option
    lease_before, \* vm_lease when the handler of that frame started
    effect,     \* what the handler did with that frame
    lease_at_write,   \* vm_lease at the moment vm.write was called for that frame: Option
    port_forwardings, \* PortForwarder.port_forwardings: Vec<PortForwarding>
    failed,           \* PortForwarder.failed
    host_rules,       \* the port forwarding rules programmed on the host interface
    tick_calls,       \* the host calls issued by the last tick, in order
    tick_saw,         \* what the last tick saw of the lease: Option
    enobufs_encountered, \* Proxy.enobufs_encountered
    enobufs_reports,  \* how many times the ENOBUFS message was sent to telemetry
    pc,               \* Proxy::run: the statement it is at
    ready,            \* the triple the last wait() returned
    sigint,           \* SIGINT has been delivered to the process
    poll_failed,      \* the operation of the poller that has failed: "none", "arm", ...
    vm_q,             \* the frames waiting at the VM fd
    host_q,           \* the frames waiting at the host interface
    vm_in,            \* the frames read from the VM fd, in order
    host_out,         \* the frames written to the host interface, in order
    host_in,          \* the frames read from the host interface, in order
    vm_out,           \* the frames written to the VM fd, in order
    batch,            \* the frames of the batch read from the host, not yet processed
    traffic,          \* what the two sides send during the run, and how much is recorded
    cb,               \* the vendor callback: "idle", "woke" (byte sent), "blocked" (in recv)
    wake_bytes,       \* the datagrams waiting in the socketpair
    packets,          \* the packets waiting in the vmnet interface
    callback_set,     \* the event callback: "set", "cleared", "dropped" with its Receiver
    hpc,              \* the pump and the Host: "out" of it, or the statement it is at
    finalized,        \* Host.finalized
    clear_calls,      \* how many times clear_event_callback was called
    teardown_calls    \* how many times interface.finalize() was called

\* the state of the port forwarder and of the host interface it programs
pfvars == <<port_forwardings, failed, host_rules, tick_calls, tick_saw>>

\* the ENOBUFS telemetry
telvars == <<enobufs_encountered, enobufs_reports>>

\* the position of run(), its poller and the queues at both file descriptors
loopvars == <<pc, ready, sigint, poll_failed, vm_q, host_q, vm_in, host_out, host_in,
              vm_out, batch, traffic>>

\* the Host, its callback and the thread of the pump inside the Host
cbvars == <<cb, wake_bytes, packets, callback_set, hpc, finalized, clear_calls,
            teardown_calls>>

vars == <<allow, block, rules, vm_lease, now, run, dir, frame, snooped, lease_before,
          effect, lease_at_write, port_forwardings, failed, host_rules, tick_calls,
          tick_saw, enobufs_encountered, enobufs_reports, pc, ready, sigint,
          poll_failed, vm_q, host_q, vm_in, host_out, host_in, vm_out, batch, traffic, cb,
          wake_bytes,
          packets, callback_set, hpc, finalized, clear_calls, teardown_calls>>

----------------------------------------------------------------------------
(* Bounds of the model *)

MaxTime == 2          \* the clock runs over 0..MaxTime
MaxLeaseTime == 2     \* option 51 carries 0..MaxLeaseTime seconds
MaxDnsIps == 2        \* option 6 carries at most MaxDnsIps addresses
MaxExposedPorts == 2  \* at most MaxExposedPorts ports are exposed
MaxEnobufs == 2       \* at most MaxEnobufs writes to the VM fail with ENOBUFS
MaxQueue == 2         \* at most MaxQueue frames wait at a file descriptor
MaxLog == 3           \* a side delivers at most MaxLog frames in a recorded run
MaxPackets == 2       \* at most MaxPackets packets wait in the vmnet interface
MaxWakeBytes == 2     \* at most MaxWakeBytes datagrams wait in the socketpair
MaxFinalize == 2      \* finalize() is called at most MaxFinalize times before the drop

----------------------------------------------------------------------------
(* Option<T> is a sequence of length 0 or 1 *)

None == <<>>
Some(x) == <<x>>
IsSome(o) == Len(o) = 1
Unwrap(o) == o[1]

----------------------------------------------------------------------------
(* IPv4 addresses are four octets; networks are an address and a length *)

Ip(a, b, c, d) == <<a, b, c, d>>
Net(ip, len) == [addr |-> ip, len |-> len]

Pow2(n) == 2 ^ n

\* bit i (1 = most significant, 32 = least significant) of an address
Bit(ip, i) == (ip[((i - 1) \div 8) + 1] \div Pow2(7 - ((i - 1) % 8))) % 2

\* the address with all but its first len bits cleared
Mask(ip, len) ==
    [o \in 1..4 |->
        LET keep == IF len >= 8 * o THEN 8
                    ELSE IF len <= 8 * (o - 1) THEN 0
                    ELSE len - 8 * (o - 1)
        IN (ip[o] \div Pow2(8 - keep)) * Pow2(8 - keep)]

\* Ipv4Net::contains
Contains(net, ip) == \A i \in 1..net.len : Bit(net.addr, i) = Bit(ip, i)

Unspecified == Ip(0, 0, 0, 0)
Broadcast == Ip(255, 255, 255, 255)
GatewayIp == Ip(192, 168, 64, 1)
VmIpA == Ip(192, 168, 64, 2)
VmIpB == Ip(192, 168, 64, 3)
GlobalIp == Ip(8, 8, 8, 8)
DnsGlobal == Ip(1, 1, 1, 1)
DnsPrivate == Ip(10, 0, 0, 53)
MulticastIp == Ip(224, 0, 0, 251)

\* Ipv4Addr::is_unspecified, Ipv4Addr::is_broadcast
is_unspecified(ip) == ip = Unspecified
is_broadcast(ip) == ip = Broadcast
is_multicast(ip) == Contains(Net(Ip(224, 0, 0, 0), 4), ip)

\* ip_network::IpNetwork::is_global: none of the special-purpose ranges
NonGlobalNets ==
    { Net(Ip(0, 0, 0, 0), 8),        \* local identification
      Net(Ip(10, 0, 0, 0), 8),       \* private
      Net(Ip(172, 16, 0, 0), 12),
      Net(Ip(192, 168, 0, 0), 16),
      Net(Ip(100, 64, 0, 0), 10),    \* shared address space
      Net(Ip(127, 0, 0, 0), 8),      \* loopback
      Net(Ip(169, 254, 0, 0), 16),   \* link local
      Net(Ip(192, 0, 0, 0), 24),     \* IETF protocol assignments
      Net(Ip(192, 0, 2, 0), 24),     \* documentation
      Net(Ip(198, 51, 100, 0), 24),
      Net(Ip(203, 0, 113, 0), 24),
      Net(Ip(198, 18, 0, 0), 15),    \* benchmarking
      Net(Ip(240, 0, 0, 0), 4) }     \* reserved, limited broadcast

is_global(ip) == \A n \in NonGlobalNets : ~Contains(n, ip)

----------------------------------------------------------------------------
(* The rule table *)

\* PrefixMap::new and PrefixMap::insert: a later insert of a prefix overwrites
EmptyMap == [p \in {} |-> "Allow"]

insert(m, net, action) ==
    [p \in (DOMAIN m) \cup {net} |-> IF p = net THEN action ELSE m[p]]

RECURSIVE InsertAll(_, _, _)
InsertAll(m, nets, action) ==
    IF nets = {} THEN m
    ELSE LET n == CHOOSE x \in nets : TRUE
         IN InsertAll(insert(m, n, action), nets \ {n}, action)

\* Proxy::new: the allows are inserted first, the blocks after them
BlocksFirstRules(allow_nets, block_nets) ==
    InsertAll(InsertAll(EmptyMap, block_nets, "Block"), allow_nets, "Allow")

ProxyNewRules(allow_nets, block_nets) ==
    InsertAll(InsertAll(EmptyMap, allow_nets, "Allow"), block_nets, "Block")

\* PrefixMap::get_lpm(dst/32): walk down the bits of dst from the root and
\* keep the deepest node that holds a value
RECURSIVE LpmWalk(_, _, _, _)
LpmWalk(m, ip, depth, best) ==
    IF depth > 32 THEN best
    ELSE LET node == Net(Mask(ip, depth), depth)
         IN LpmWalk(m, ip, depth + 1,
                    IF node \in DOMAIN m THEN Some(node) ELSE best)

FirstMatchLpm(m, ip) ==
    LET hits == {p \in DOMAIN m : Contains(p, ip)}
    IN IF hits = {} THEN None
       ELSE Some(CHOOSE p \in hits : \A q \in hits : p.len <= q.len)

get_lpm(m, ip) == LpmWalk(m, ip, 0, None)

----------------------------------------------------------------------------
(* Leases and the DHCP snooper *)

\* Lease::new reads the clock
LeaseNew(address, lease_time, dns_ips) ==
    [address |-> address, valid_until |-> now + lease_time, dns_ips |-> dns_ips]

\* Lease::valid
NeverExpires(lease) == TRUE

valid(lease) == now < lease.valid_until

\* Lease::valid_ip_source
AddressOnlyIpSource(lease, address) == lease.address = address

valid_ip_source(lease, address) == lease.address = address /\ valid(lease)

\* DhcpSnooper::valid_dns_target: expiry is not looked at
AnyDnsTarget(addr) == IsSome(vm_lease)

valid_dns_target(addr) ==
    IsSome(vm_lease) /\ addr \in Unwrap(vm_lease).dns_ips

\* HashSet::from_iter over the addresses of option 6
SetOf(seq) == {seq[i] : i \in DOMAIN seq}

\* A DHCP payload as far as the snooper reads it: whether it decodes, the
\* message type (option 53), yiaddr, option 51 and option 6.
DhcpMsg(decodes, msg_type, yiaddr, lease_time, dns) ==
    [decodes |-> decodes, msg_type |-> msg_type, yiaddr |-> yiaddr,
     lease_time |-> lease_time, dns |-> dns]

\* DhcpSnooper::register_dhcp_reply: the value of vm_lease after the call
MergingRegister(message) ==
    IF ~message.decodes THEN vm_lease
    ELSE IF message.msg_type = Some("Ack") THEN
        IF ~IsSome(message.lease_time) THEN vm_lease
        ELSE Some(LeaseNew(message.yiaddr, Unwrap(message.lease_time),
                  (IF IsSome(message.dns) THEN SetOf(Unwrap(message.dns)) ELSE {})
                  \cup (IF IsSome(vm_lease) THEN Unwrap(vm_lease).dns_ips ELSE {})))
    ELSE IF message.msg_type = Some("Nak") THEN None
    ELSE vm_lease

NakIgnoringRegister(message) ==
    IF ~message.decodes THEN vm_lease
    ELSE IF message.msg_type = Some("Ack") THEN
        IF ~IsSome(message.lease_time) THEN vm_lease
        ELSE Some(LeaseNew(message.yiaddr, Unwrap(message.lease_time),
                  IF IsSome(message.dns) THEN SetOf(Unwrap(message.dns)) ELSE {}))
    ELSE vm_lease

DefaultLeaseTimeRegister(message) ==
    IF ~message.decodes THEN vm_lease
    ELSE IF message.msg_type = Some("Ack") THEN
        Some(LeaseNew(message.yiaddr,
                      IF IsSome(message.lease_time) THEN Unwrap(message.lease_time) ELSE 0,
                      IF IsSome(message.dns) THEN SetOf(Unwrap(message.dns)) ELSE {}))
    ELSE IF message.msg_type = Some("Nak") THEN None
    ELSE vm_lease

register_dhcp_reply(message) ==
    IF ~message.decodes THEN vm_lease
    ELSE IF message.msg_type = Some("Ack") THEN
        IF ~IsSome(message.lease_time) THEN vm_lease
        ELSE Some(LeaseNew(message.yiaddr, Unwrap(message.lease_time),
                  IF IsSome(message.dns) THEN SetOf(Unwrap(message.dns)) ELSE {}))
    ELSE IF message.msg_type = Some("Nak") THEN None
    ELSE vm_lease

----------------------------------------------------------------------------
(* Frames.  A frame is a record of the fields the filters read:             *)
(*   eth_ok      EthernetFrame::new_checked succeeds                        *)
(*   payload_ok  ArpPacket::new_checked / Ipv4Packet::new_checked succeeds  *)
(*   sha, plen, spa   ARP sender hardware address, protocol address length  *)
(*                    and sender protocol address                           *)
(*   src, dst, proto  IPv4 addresses and next header                        *)
(*   udp_ok, sport, dport   UdpPacket::new_checked succeeds, and the ports  *)
(*   dhcp        the UDP payload, read as a DHCP message                    *)

VmMac == "02:00:00:00:00:01"
SpoofedMac == "02:00:00:00:00:02"
HostMac == "02:00:00:00:00:64"
BroadcastMac == "ff:ff:ff:ff:ff:ff"

DNS_PORT == 53
BOOTPS_PORT == 67
BOOTPC_PORT == 68

NoDhcp == DhcpMsg(FALSE, None, Unspecified, None, None)

BlankFrame ==
    [eth_ok |-> TRUE, src_mac |-> HostMac, dst_mac |-> HostMac,
     ethertype |-> "Other", payload_ok |-> FALSE,
     sha |-> HostMac, plen |-> 4, spa |-> Unspecified,
     src |-> Unspecified, dst |-> Unspecified, proto |-> "Tcp",
     udp_ok |-> FALSE, sport |-> 0, dport |-> 0, dhcp |-> NoDhcp]

RuntFrame(src_mac, dst_mac) ==
    [BlankFrame EXCEPT !.eth_ok = FALSE, !.src_mac = src_mac, !.dst_mac = dst_mac]

OtherFrame(src_mac, dst_mac) ==
    [BlankFrame EXCEPT !.src_mac = src_mac, !.dst_mac = dst_mac]

BadPayloadFrame(src_mac, dst_mac, ethertype) ==
    [BlankFrame EXCEPT !.src_mac = src_mac, !.dst_mac = dst_mac,
                       !.ethertype = ethertype]

ArpFrame(src_mac, dst_mac, sha, plen, spa) ==
    [BlankFrame EXCEPT !.src_mac = src_mac, !.dst_mac = dst_mac,
                       !.ethertype = "Arp", !.payload_ok = TRUE,
                       !.sha = sha, !.plen = plen, !.spa = spa]

TcpFrame(src_mac, dst_mac, src, dst) ==
    [BlankFrame EXCEPT !.src_mac = src_mac, !.dst_mac = dst_mac,
                       !.ethertype = "Ipv4", !.payload_ok = TRUE,
                       !.src = src, !.dst = dst]

BadUdpFrame(src_mac, dst_mac, src, dst) ==
    [BlankFrame EXCEPT !.src_mac = src_mac, !.dst_mac = dst_mac,
                       !.ethertype = "Ipv4", !.payload_ok = TRUE,
                       !.src = src, !.dst = dst, !.proto = "Udp"]

UdpFrame(src_mac, dst_mac, src, dst, sport, dport, dhcp) ==
    [BlankFrame EXCEPT !.src_mac = src_mac, !.dst_mac = dst_mac,
                       !.ethertype = "Ipv4", !.payload_ok = TRUE,
                       !.src = src, !.dst = dst, !.proto = "Udp",
                       !.udp_ok = TRUE, !.sport = sport, !.dport = dport,
                       !.dhcp = dhcp]

\* UdpPacketHelper
is_dns_request(udp) == udp.dport = DNS_PORT

BothPortsDhcpRequest(udp) == udp.sport = BOOTPC_PORT /\ udp.dport = BOOTPS_PORT

is_dhcp_request(udp) == udp.sport = BOOTPC_PORT \/ udp.dport = BOOTPS_PORT

is_dhcp_response(udp) == udp.sport = BOOTPS_PORT \/ udp.dport = BOOTPC_PORT

----------------------------------------------------------------------------
(* The VM -> host filter.  A filter answers "Some" (permit), "None" (drop)  *)
(* or "Panic" (the unwrap of a failed conversion).                          *)

\* allowed_from_vm_arp
ExpiredAsAbsentArp(arp_pkt) ==
    IF arp_pkt.sha # VmMac THEN "None"
    ELSE IF arp_pkt.plen # 4 THEN "Panic"
    ELSE IF IsSome(vm_lease) /\ valid(Unwrap(vm_lease)) THEN
        IF valid_ip_source(Unwrap(vm_lease), arp_pkt.spa) THEN "Some" ELSE "None"
    ELSE IF is_unspecified(arp_pkt.spa) THEN "Some"
    ELSE "None"

allowed_from_vm_arp(arp_pkt) ==
    IF arp_pkt.sha # VmMac THEN "None"
    \* source_protocol_addr().try_into().unwrap() of a slice that is not 4 long
    ELSE IF arp_pkt.plen # 4 THEN "Panic"
    ELSE IF IsSome(vm_lease) THEN
        IF valid_ip_source(Unwrap(vm_lease), arp_pkt.spa) THEN "Some" ELSE "None"
    ELSE IF is_unspecified(arp_pkt.spa) THEN "Some"
    ELSE "None"

\* allowed_from_vm_ipv4, the clauses guarded by a valid lease source
\* (vm.rs 66-101): "Some", "None", or "Next" when none of them decides
GlobalFirstClauses(ipv4_pkt) ==
    LET hit == IF DOMAIN rules # {} THEN get_lpm(rules, ipv4_pkt.dst) ELSE None
    IN  IF is_global(ipv4_pkt.dst) THEN "Some"
        ELSE IF IsSome(hit) THEN
            IF rules[Unwrap(hit)] = "Allow" THEN "Some" ELSE "None"
        ELSE IF ipv4_pkt.dst = GatewayIp THEN "Some"
        ELSE IF ipv4_pkt.proto = "Udp" THEN
            IF ~ipv4_pkt.udp_ok THEN "None"
            ELSE IF is_dns_request(ipv4_pkt) /\ valid_dns_target(ipv4_pkt.dst)
                 THEN "Some" ELSE "Next"
        ELSE "Next"

LeaseClauses(ipv4_pkt) ==
    LET hit == IF DOMAIN rules # {} THEN get_lpm(rules, ipv4_pkt.dst) ELSE None
    IN  IF IsSome(hit) THEN
            IF rules[Unwrap(hit)] = "Allow" THEN "Some" ELSE "None"
        ELSE IF is_global(ipv4_pkt.dst) THEN "Some"
        ELSE IF ipv4_pkt.dst = GatewayIp THEN "Some"
        ELSE IF ipv4_pkt.proto = "Udp" THEN
            IF ~ipv4_pkt.udp_ok THEN "None"
            ELSE IF is_dns_request(ipv4_pkt) /\ valid_dns_target(ipv4_pkt.dst)
                 THEN "Some" ELSE "Next"
        ELSE "Next"

\* allowed_from_vm_ipv4, the DHCP clause (vm.rs 104-115)
BootstrapClause(ipv4_pkt) ==
    IF ipv4_pkt.proto = "Udp" THEN
        IF ~ipv4_pkt.udp_ok THEN "None"
        ELSE IF is_dhcp_request(ipv4_pkt) /\ is_broadcast(ipv4_pkt.dst)
             THEN "Some" ELSE "None"
    ELSE "None"

allowed_from_vm_ipv4(ipv4_pkt) ==
    IF IsSome(vm_lease) /\ valid_ip_source(Unwrap(vm_lease), ipv4_pkt.src)
    THEN LET decided == LeaseClauses(ipv4_pkt)
         IN IF decided # "Next" THEN decided ELSE BootstrapClause(ipv4_pkt)
    ELSE BootstrapClause(ipv4_pkt)

\* allowed_from_vm
NoMacCheckFromVm(f) ==
    IF f.ethertype = "Arp" THEN
        IF f.payload_ok THEN allowed_from_vm_arp(f) ELSE "None"
    ELSE IF f.ethertype = "Ipv4" THEN
        IF f.payload_ok THEN allowed_from_vm_ipv4(f) ELSE "None"
    ELSE "None"

allowed_from_vm(f) ==
    IF f.src_mac # VmMac THEN "None"
    ELSE IF f.ethertype = "Arp" THEN
        IF f.payload_ok THEN allowed_from_vm_arp(f) ELSE "None"
    ELSE IF f.ethertype = "Ipv4" THEN
        IF f.payload_ok THEN allowed_from_vm_ipv4(f) ELSE "None"
    ELSE "None"

\* process_frame_from_vm: a permitted frame is written to the host, and a
\* failed write ends run() with the error
process_frame_from_vm(f) ==
    /\ snooped' = None
    /\ lease_before' = vm_lease
    /\ lease_at_write' = None
    /\ UNCHANGED <<allow, block, rules, vm_lease, now>>
    /\ UNCHANGED pfvars
    /\ UNCHANGED telvars
    /\ LET allowed == allowed_from_vm(f)
       IN  \/ /\ allowed = "None"
              /\ effect' = "dropped"
              /\ run' = run
           \/ /\ allowed = "Panic"
              /\ effect' = "panic"
              /\ run' = "panicked"
           \/ /\ allowed = "Some"
              /\ \E host_write \in {"Ok", "Err"} :
                    /\ effect' = IF host_write = "Ok" THEN "written" ELSE "write_error"
                    /\ run' = IF host_write = "Ok" THEN run ELSE "error"

----------------------------------------------------------------------------
(* The host -> VM path *)

\* allowed_from_host
Ipv4OnlyFromHost(f) ==
    IF f.ethertype = "Ipv4" THEN "Some" ELSE "None"

allowed_from_host(f) ==
    IF f.ethertype \in {"Arp", "Ipv4"} THEN "Some" ELSE "None"

\* snoop: the payload it hands to register_dhcp_reply, if any
SnoopAnySource(f) ==
    IF f.ethertype # "Ipv4" THEN None
    ELSE IF ~f.payload_ok THEN None
    ELSE IF f.proto # "Udp" THEN None
    ELSE IF ~f.udp_ok THEN None
    ELSE IF ~is_dhcp_response(f) THEN None
    ELSE Some(f.dhcp)

snoop(f) ==
    IF f.ethertype # "Ipv4" THEN None
    ELSE IF ~f.payload_ok THEN None
    ELSE IF f.src # GatewayIp THEN None
    ELSE IF f.proto # "Udp" THEN None
    ELSE IF ~f.udp_ok THEN None
    ELSE IF ~is_dhcp_response(f) THEN None
    ELSE Some(f.dhcp)

\* process_frame_from_host, the order of its statements: snoop (host.rs
\* 13-17) comes before vm.write (19), which so sees the lease after the snoop
LeaseBeforeSnoop(before, after) == before

lease_seen_by_write(before, after) == after

\* process_frame_from_host, the match on the result of vm.write (host.rs
\* 19-33): what became of the frame, and whether the error is returned
EnobufsReturned(vm_write) ==
    CASE vm_write = "Ok" -> [effect |-> "written", err |-> FALSE]
      [] vm_write = "ENOBUFS" -> [effect |-> "enobufs", err |-> TRUE]
      [] OTHER -> [effect |-> "write_error", err |-> TRUE]

vm_write_result(vm_write) ==
    CASE vm_write = "Ok" -> [effect |-> "written", err |-> FALSE]
      [] vm_write = "ENOBUFS" -> [effect |-> "enobufs", err |-> FALSE]
      [] OTHER -> [effect |-> "write_error", err |-> TRUE]

\* process_frame_from_host: filter, snoop, then write to the VM.  ENOBUFS
\* is swallowed, any other write error ends run().
process_frame_from_host(f) ==
    /\ lease_before' = vm_lease
    /\ UNCHANGED <<allow, block, rules, now>>
    /\ UNCHANGED pfvars
    /\ IF allowed_from_host(f) = "None"
       THEN /\ snooped' = None
            /\ effect' = "dropped"
            /\ lease_at_write' = None
            /\ UNCHANGED <<vm_lease, run>>
            /\ UNCHANGED telvars
       ELSE /\ snooped' = IF f.dst_mac = VmMac THEN snoop(f) ELSE None
            /\ vm_lease' = IF IsSome(snooped') THEN register_dhcp_reply(Unwrap(snooped'))
                           ELSE vm_lease
            /\ lease_at_write' = Some(lease_seen_by_write(vm_lease, vm_lease'))
            /\ \E vm_write \in {"Ok", "ENOBUFS", "Err"} :
                  /\ vm_write = "ENOBUFS" => enobufs_reports < MaxEnobufs
                  /\ effect' = vm_write_result(vm_write).effect
                  /\ run' = IF vm_write_result(vm_write).err THEN "error" ELSE run
                  \* sentry::capture_message is called at every ENOBUFS, and
                  \* nothing assigns enobufs_encountered
                  /\ enobufs_reports' = IF vm_write = "ENOBUFS" THEN enobufs_reports + 1
                                        ELSE enobufs_reports
                  /\ UNCHANGED enobufs_encountered

----------------------------------------------------------------------------
(* The port forwarder *)

\* ExposedPort, PortForwarding, PortForwarder::new
ExposedPort(external_port, internal_port) ==
    [external_port |-> external_port, internal_port |-> internal_port]

PortForwarding(exposed_port, forwarding_to_addr) ==
    [exposed_port |-> exposed_port, forwarding_to_addr |-> forwarding_to_addr]

PortForwarderNew(exposed_ports) ==
    [i \in DOMAIN exposed_ports |-> PortForwarding(exposed_ports[i], None)]

\* the forwarder and the host interface after Proxy::new
InitForwarder(exposed_ports) ==
    /\ port_forwardings = PortForwarderNew(exposed_ports)
    /\ failed = FALSE
    /\ host_rules = {}
    /\ tick_calls = <<>>
    /\ tick_saw = None

\* Host::port_forwarding_add_rule and Host::port_forwarding_remove_rule: the
\* rules of the host interface after the call.  A call that returns an error
\* (ok is FALSE) has programmed nothing.
port_forwarding_add_rule(hr, external_port, addr, internal_port, ok) ==
    IF ok
    THEN hr \cup {[external |-> external_port, addr |-> addr, internal |-> internal_port]}
    ELSE hr

port_forwarding_remove_rule(hr, external_port, ok) ==
    IF ok THEN {r \in hr : r.external # external_port} ELSE hr

\* One call of the host from a tick.  st is the state the tick works on:
\* the forwardings, the rules of the host, the calls issued so far, and
\* whether a call has returned an error.  The call number fail_at of the
\* tick returns an error.
HostCall(st, op, external_port, addr, internal_port, fail_at) ==
    LET ok == Len(st.calls) + 1 # fail_at
        call == [op |-> op, external |-> external_port, addr |-> addr,
                 internal |-> internal_port, ok |-> ok,
                 had_rule |-> \E r \in st.host : r.external = external_port]
    IN  [st EXCEPT
            !.calls = Append(@, call),
            !.err = ~ok,
            !.host = IF op = "add"
                     THEN port_forwarding_add_rule(@, external_port, addr, internal_port, ok)
                     ELSE port_forwarding_remove_rule(@, external_port, ok)]

\* tick_inner, the test of the installed address against the lease
StaleIsUpToDate(pf, lease) == IsSome(pf.forwarding_to_addr)

NeverUpToDate(pf, lease) == FALSE

UpToDate(pf, lease) ==
    IsSome(pf.forwarding_to_addr) /\ Unwrap(pf.forwarding_to_addr) = lease.address

\* tick_inner: a forwarding installed for another address is removed first
NoRemoveBeforeAdd(pf, lease) == FALSE

NeedsRemove(pf, lease) ==
    IsSome(pf.forwarding_to_addr) /\ Unwrap(pf.forwarding_to_addr) # lease.address

\* port_forwarding.forwarding_to_addr = None, after a remove that succeeded
KeptInstalled(pf) == pf

Cleared(pf) == [pf EXCEPT !.forwarding_to_addr = None]

\* tick_inner, the body of the loop over the forwardings, for forwarding i
InstallPort(st, i, lease, fail_at) ==
    LET pf == st.pfs[i]
        removed ==
            IF NeedsRemove(pf, lease)
            THEN LET r == HostCall(st, "remove", pf.exposed_port.external_port,
                                   Unspecified, 0, fail_at)
                 IN  IF r.err THEN r ELSE [r EXCEPT !.pfs[i] = Cleared(@)]
            ELSE st
    IN  IF UpToDate(pf, lease) THEN st
        ELSE IF removed.err THEN removed
        ELSE LET r == HostCall(removed, "add", pf.exposed_port.external_port,
                               lease.address, pf.exposed_port.internal_port, fail_at)
             IN  IF r.err THEN r
                 ELSE [r EXCEPT !.pfs[i].forwarding_to_addr = Some(lease.address)]

\* tick_inner, the loop from forwarding i on: ? leaves it at the first error
RECURSIVE InstallAll(_, _, _, _)
InstallAll(st, i, lease, fail_at) ==
    IF i > Len(st.pfs) \/ st.err THEN st
    ELSE InstallAll(InstallPort(st, i, lease, fail_at), i + 1, lease, fail_at)

\* remove_all_port_forwardings: a forwarding that is not installed is skipped
SkipsNothing(pf) == FALSE

Skips(pf) == ~IsSome(pf.forwarding_to_addr)

\* remove_all_port_forwardings, the body of the loop, for forwarding i
RemovePort(st, i, fail_at) ==
    LET pf == st.pfs[i]
    IN  IF Skips(pf) THEN st
        ELSE LET r == HostCall(st, "remove", pf.exposed_port.external_port,
                               Unspecified, 0, fail_at)
             IN  IF r.err THEN r ELSE [r EXCEPT !.pfs[i] = Cleared(@)]

\* remove_all_port_forwardings, from forwarding i on
RECURSIVE remove_all_port_forwardings(_, _, _)
remove_all_port_forwardings(st, i, fail_at) ==
    IF i > Len(st.pfs) \/ st.err THEN st
    ELSE remove_all_port_forwardings(RemovePort(st, i, fail_at), i + 1, fail_at)

\* PortForwarder::tick_inner
tick_inner(st, lease_opt, fail_at) ==
    IF IsSome(lease_opt)
    THEN IF ~valid(Unwrap(lease_opt))
         THEN remove_all_port_forwardings(st, 1, fail_at)
         ELSE InstallAll(st, 1, Unwrap(lease_opt), fail_at)
    ELSE remove_all_port_forwardings(st, 1, fail_at)

\* what a tick sees of the lease it is given
View(lease_opt) ==
    IF IsSome(lease_opt)
    THEN [present |-> TRUE, valid |-> valid(Unwrap(lease_opt)),
          address |-> Unwrap(lease_opt).address]
    ELSE [present |-> FALSE, valid |-> FALSE, address |-> Unspecified]

\* PortForwarder::tick, the test of the latch
NeverReturnsEarly == FALSE

tick_returns_early == failed

\* PortForwarder::tick.  fail_at is the number of the host call of this tick
\* that returns an error, 0 for none.
tick(lease_opt, fail_at) ==
    /\ tick_saw' = Some(View(lease_opt))
    /\ IF tick_returns_early
       THEN /\ tick_calls' = <<>>
            /\ UNCHANGED <<port_forwardings, failed, host_rules>>
       ELSE LET r == tick_inner([pfs |-> port_forwardings, host |-> host_rules,
                                 calls |-> <<>>, err |-> FALSE], lease_opt, fail_at)
            IN  /\ port_forwardings' = r.pfs
                /\ host_rules' = r.host
                /\ tick_calls' = r.calls
                /\ failed' = (failed \/ r.err)

\* what wait() reports: the VM fd is readable, the wake fd of the host is
\* readable, SIGINT was delivered
Ready(vm_readable, host_readable, interrupt) ==
    [vm |-> vm_readable, host |-> host_readable, intr |-> interrupt]

\* Proxy::new and Host::new: the rest of the state before run() is called
NoTraffic == [vm |-> {}, host |-> {}, queue |-> 0, vm_log |-> 0, host_log |-> 0]

InitRunWith(sent) ==
    /\ traffic = sent
    /\ enobufs_encountered = FALSE
    /\ enobufs_reports = 0
    /\ pc = "arm"
    /\ ready = Ready(FALSE, FALSE, FALSE)
    /\ sigint = FALSE
    /\ poll_failed = "none"
    /\ vm_q = <<>>
    /\ host_q = <<>>
    /\ vm_in = <<>>
    /\ host_out = <<>>
    /\ host_in = <<>>
    /\ vm_out = <<>>
    /\ batch = <<>>
    /\ cb = "idle"
    /\ wake_bytes = 0
    /\ packets = 0
    /\ callback_set = "set"
    /\ hpc = "out"
    /\ finalized = FALSE
    /\ clear_calls = 0
    /\ teardown_calls = 0

InitRun == InitRunWith(NoTraffic)

----------------------------------------------------------------------------
(* Inputs *)

\* the networks given with --allow and --block
Net0 == Net(Ip(0, 0, 0, 0), 0)
Net66 == Net(Ip(66, 66, 0, 0), 16)
Net33 == Net(Ip(33, 33, 33, 0), 24)
Host33 == Net(Ip(33, 33, 33, 33), 32)
NetSegment == Net(Ip(192, 168, 64, 0), 24)
NetGlobal8 == Net(Ip(8, 8, 8, 0), 24)

Ip66 == Ip(66, 66, 66, 66)
Ip33 == Ip(33, 33, 33, 33)
Ip33Below == Ip(33, 33, 33, 32)
Ip33Above == Ip(33, 33, 33, 34)

PrefixUniverse == {Net0, Net66, Net33, Host33, NetSegment}

\* <<allow, block>> pairs
Policies ==
    { <<{}, {}>>,
      <<{Net0}, {}>>,
      <<{}, {Net0}>>,
      <<{NetSegment}, {NetGlobal8}>>,
      <<{Net66}, {Net66}>>,
      <<{Host33}, {Net33}>> }

PumpPolicies == { <<{}, {}>>, <<{Host33}, {Net33, NetSegment}>> }

DnsIps == {DnsGlobal, DnsPrivate}
LeaseAddrs == {VmIpA, VmIpB}

\* the leases the snooper can hold at time t: made by an ACK seen at some
\* time <= t, with a lease time of at most MaxLeaseTime
Leases(t) ==
    {None} \cup
    { Some([address |-> a, valid_until |-> u, dns_ips |-> d]) :
        a \in LeaseAddrs, u \in 0..(t + MaxLeaseTime), d \in SUBSET DnsIps }

SeqsUpTo(S, n) == UNION { [1..k -> S] : k \in 0..n }

Options(S) == {None} \cup { Some(x) : x \in S }

\* the DHCP payloads
DhcpMsgs ==
    { NoDhcp,
      DhcpMsg(TRUE, None, VmIpA, Some(1), None),
      DhcpMsg(TRUE, Some("Offer"), VmIpA, Some(1), None),
      DhcpMsg(TRUE, Some("Nak"), Unspecified, None, None) }
    \cup
    { DhcpMsg(TRUE, Some("Ack"), a, t, d) :
        a \in LeaseAddrs, t \in Options(0..MaxLeaseTime),
        d \in Options(SeqsUpTo(DnsIps, MaxDnsIps)) }

PumpDhcpMsgs ==
    { NoDhcp,
      DhcpMsg(TRUE, Some("Offer"), VmIpA, Some(1), None),
      DhcpMsg(TRUE, Some("Nak"), Unspecified, None, None),
      DhcpMsg(TRUE, Some("Ack"), VmIpA, Some(1), Some(<<DnsPrivate>>)),
      DhcpMsg(TRUE, Some("Ack"), VmIpB, Some(MaxLeaseTime), None),
      DhcpMsg(TRUE, Some("Ack"), VmIpA, None, None) }

Ports == {BOOTPC_PORT, BOOTPS_PORT, DNS_PORT, 1024}

\* frames the VM can send (EthernetFrame::new_checked succeeds)
VmSrcIps == {Unspecified, VmIpA, VmIpB, GlobalIp}
VmDstIps == {Broadcast, GatewayIp, VmIpB, GlobalIp, DnsGlobal, DnsPrivate,
             MulticastIp, Ip66, Ip33, Ip33Below}

VmIpv4Frames(src_macs, srcs, dsts) ==
    { TcpFrame(m, HostMac, s, d) : m \in src_macs, s \in srcs, d \in dsts }
    \cup { BadUdpFrame(m, HostMac, s, d) : m \in src_macs, s \in srcs, d \in dsts }
    \cup { UdpFrame(m, HostMac, s, d, sp, dp, NoDhcp) :
             m \in src_macs, s \in srcs, d \in dsts,
             sp \in {BOOTPC_PORT, 1024},
             dp \in {DNS_PORT, BOOTPS_PORT, 1024} }

VmArpFrames(src_macs, spas) ==
    { ArpFrame(m, BroadcastMac, sha, plen, spa) :
        m \in src_macs, sha \in {VmMac, SpoofedMac}, plen \in {4, 16}, spa \in spas }

VmFrames ==
    { OtherFrame(m, HostMac) : m \in {VmMac, SpoofedMac} }
    \cup { BadPayloadFrame(m, HostMac, t) : m \in {VmMac, SpoofedMac}, t \in {"Arp", "Ipv4"} }
    \cup VmArpFrames({VmMac, SpoofedMac}, {Unspecified, VmIpA, VmIpB})
    \cup VmIpv4Frames({VmMac, SpoofedMac}, VmSrcIps, VmDstIps)

\* frames of the VM with the source of the lease, for the rule table
RuleDstIps == {Broadcast, GatewayIp, VmIpB, GlobalIp, DnsPrivate,
               Ip66, Ip33, Ip33Below, Ip33Above}

RuleFrames ==
    { f \in VmIpv4Frames({VmMac}, {VmIpA}, RuleDstIps) :
        f.udp_ok => <<f.sport, f.dport>> \in { <<BOOTPC_PORT, BOOTPS_PORT>>,
                                               <<1024, DNS_PORT>> } }

RuleLease == Some([address |-> VmIpA, valid_until |-> 1, dns_ips |-> {DnsPrivate}])

\* frames the host interface can deliver
HostIpv4Frames(dst_macs, msgs) ==
    { TcpFrame(HostMac, m, s, VmIpA) : m \in dst_macs, s \in {GatewayIp, GlobalIp} }
    \cup { BadUdpFrame(HostMac, m, s, VmIpA) : m \in dst_macs, s \in {GatewayIp, GlobalIp} }
    \cup { UdpFrame(HostMac, m, s, VmIpA, sp, dp, msg) :
             m \in dst_macs, s \in {GatewayIp, GlobalIp},
             sp \in {BOOTPS_PORT, 1024}, dp \in {BOOTPC_PORT, 1024},
             msg \in msgs }

HostFrames ==
    { OtherFrame(HostMac, m) : m \in {VmMac, BroadcastMac} }
    \cup { BadPayloadFrame(HostMac, m, "Ipv4") : m \in {VmMac, BroadcastMac} }
    \cup { ArpFrame(HostMac, m, HostMac, 4, GatewayIp) : m \in {VmMac, BroadcastMac} }
    \cup HostIpv4Frames({VmMac, BroadcastMac}, DhcpMsgs)

\* the frames of the pump: a runt, and a selection of the above
PumpVmFrames ==
    { RuntFrame(VmMac, HostMac), OtherFrame(VmMac, HostMac) }
    \cup VmArpFrames({VmMac}, {Unspecified, VmIpA})
    \cup VmIpv4Frames({VmMac, SpoofedMac}, {Unspecified, VmIpA}, {Broadcast, GatewayIp, Ip33})

PumpHostFrames ==
    { RuntFrame(HostMac, VmMac), OtherFrame(HostMac, VmMac),
      ArpFrame(HostMac, VmMac, HostMac, 4, GatewayIp),
      TcpFrame(HostMac, VmMac, GlobalIp, VmIpA) }
    \cup { UdpFrame(HostMac, m, GatewayIp, VmIpA, BOOTPS_PORT, BOOTPC_PORT, msg) :
             m \in {VmMac, BroadcastMac}, msg \in PumpDhcpMsgs }

----------------------------------------------------------------------------
(* The pump: Proxy::run reads frames from the two sides while time passes *)

Init ==
    /\ \E p \in PumpPolicies : allow = p[1] /\ block = p[2]
    /\ rules = ProxyNewRules(allow, block)
    /\ vm_lease = None
    /\ now = 0
    /\ run = "running"
    /\ dir = "none"
    /\ frame = None
    /\ snooped = None
    /\ lease_before = None
    /\ effect = "none"
    /\ lease_at_write = None
    /\ InitForwarder(<<>>)
    /\ InitRun

\* read_from_vm, one turn of its loop: a frame that fails
\* EthernetFrame::new_checked is skipped
ReadFromVm ==
    /\ run = "running"
    /\ \E f \in PumpVmFrames :
          /\ dir' = "vm"
          /\ frame' = Some(f)
          /\ UNCHANGED <<loopvars, cbvars>>
          /\ IF f.eth_ok THEN process_frame_from_vm(f)
             ELSE /\ effect' = "dropped"
                  /\ snooped' = None
                  /\ lease_before' = vm_lease
                  /\ lease_at_write' = None
                  /\ UNCHANGED <<allow, block, rules, vm_lease, now, run>>
                  /\ UNCHANGED <<pfvars, telvars>>

\* read_from_host, one frame of a batch
ReadFromHost ==
    /\ run = "running"
    /\ \E f \in PumpHostFrames :
          /\ dir' = "host"
          /\ frame' = Some(f)
          /\ UNCHANGED <<loopvars, cbvars>>
          /\ IF f.eth_ok THEN process_frame_from_host(f)
             ELSE /\ effect' = "dropped"
                  /\ snooped' = None
                  /\ lease_before' = vm_lease
                  /\ lease_at_write' = None
                  /\ UNCHANGED <<allow, block, rules, vm_lease, now, run>>
                  /\ UNCHANGED <<pfvars, telvars>>

\* the monotonic clock advances
AdvanceClock ==
    /\ now < MaxTime
    /\ now' = now + 1
    /\ UNCHANGED <<allow, block, rules, vm_lease, run, dir, frame, snooped,
                   lease_before, effect, lease_at_write>>
    /\ UNCHANGED <<pfvars, telvars, loopvars, cbvars>>

Next == ReadFromVm \/ ReadFromHost \/ AdvanceClock

Spec == Init /\ [][Next]_vars

----------------------------------------------------------------------------
(* The handlers as functions of their inputs: the state before the call is *)
(* drawn from the states the proxy can be in, and one action makes the     *)
(* call.                                                                   *)

InitCall(policies, times, leases, side, frames) ==
    /\ \E p \in policies : allow = p[1] /\ block = p[2]
    /\ rules = ProxyNewRules(allow, block)
    /\ now \in times
    /\ vm_lease \in leases
    /\ IsSome(vm_lease) => Unwrap(vm_lease).valid_until <= now + MaxLeaseTime
    /\ run = "running"
    /\ dir = side
    /\ frame \in { Some(f) : f \in frames }
    /\ snooped = None
    /\ lease_before = vm_lease
    /\ effect = "pending"
    /\ lease_at_write = None
    /\ InitForwarder(<<>>)
    /\ InitRun

CallFromVm ==
    /\ effect = "pending"
    /\ dir = "vm"
    /\ process_frame_from_vm(Unwrap(frame))
    /\ UNCHANGED <<dir, frame>>
    /\ UNCHANGED <<loopvars, cbvars>>

CallFromHost ==
    /\ effect = "pending"
    /\ dir = "host"
    /\ process_frame_from_host(Unwrap(frame))
    /\ UNCHANGED <<dir, frame>>
    /\ UNCHANGED <<loopvars, cbvars>>

\* the exposed ports of a run: the first n of these
ExposedPorts(n) == [i \in 1..n |-> ExposedPort(2221 + i, 21 + i)]

\* the DHCP replies the reconciler sees snooped
PfDhcpMsgs ==
    { DhcpMsg(TRUE, Some("Nak"), Unspecified, None, None) }
    \cup { DhcpMsg(TRUE, Some("Ack"), a, Some(t), None) :
             a \in LeaseAddrs, t \in {1, MaxLeaseTime} }

PfHostFrames ==
    { UdpFrame(HostMac, VmMac, GatewayIp, VmIpA, BOOTPS_PORT, BOOTPC_PORT, msg) :
        msg \in PfDhcpMsgs }

\* Proxy::new with some exposed ports
InitPf ==
    /\ allow = {}
    /\ block = {}
    /\ rules = ProxyNewRules(allow, block)
    /\ vm_lease = None
    /\ now = 0
    /\ run = "running"
    /\ dir = "none"
    /\ frame = None
    /\ snooped = None
    /\ lease_before = None
    /\ effect = "none"
    /\ lease_at_write = None
    /\ \E n \in 0..MaxExposedPorts : InitForwarder(ExposedPorts(n))
    /\ InitRun

\* run(): an iteration where the host is readable and hands over a DHCP reply
SnoopFromHost ==
    /\ run = "running"
    /\ \E f \in PfHostFrames :
          /\ dir' = "host"
          /\ frame' = Some(f)
          /\ process_frame_from_host(f)
          /\ UNCHANGED <<loopvars, cbvars>>

\* run(): an iteration where wait() timed out, which calls tick
Tick ==
    /\ run = "running"
    /\ \E fail_at \in 0..(2 * Len(port_forwardings)) :
          tick(vm_lease, fail_at)
    /\ UNCHANGED <<allow, block, rules, vm_lease, now, run, dir, frame, snooped,
                   lease_before, effect, lease_at_write>>
    /\ UNCHANGED <<telvars, loopvars, cbvars>>

NextPf == SnoopFromHost \/ Tick \/ AdvanceClock
SpecPf == InitPf /\ [][NextPf]_vars

\* frames of the VM that look like DHCP replies of the gateway
ForgedReplies ==
    { UdpFrame(VmMac, d, s, t, BOOTPS_PORT, BOOTPC_PORT, msg) :
        d \in {HostMac, VmMac}, s \in {GatewayIp, VmIpA}, t \in {VmIpA, GlobalIp},
        msg \in { DhcpMsg(TRUE, Some("Nak"), Unspecified, None, None),
                  DhcpMsg(TRUE, Some("Ack"), VmIpB, Some(MaxLeaseTime), None) } }

\* both handlers, each over its frames and every lease
InitSnoop ==
    \/ InitCall({<<{}, {}>>}, 0..MaxTime, Leases(MaxTime), "vm",
                ForgedReplies \cup VmArpFrames({VmMac}, {Unspecified, VmIpA})
                    \cup VmIpv4Frames({VmMac}, {Unspecified, VmIpA}, {Broadcast, GatewayIp}))
    \/ InitCall({<<{}, {}>>}, 0..MaxTime, Leases(MaxTime), "host", HostFrames)
SpecSnoop == InitSnoop /\ [][CallFromVm \/ CallFromHost]_vars

----------------------------------------------------------------------------
(* Proxy::run, statement by statement *)

\* the frames that arrive while run() is looping
DhcpDiscover ==
    UdpFrame(VmMac, BroadcastMac, Unspecified, Broadcast, BOOTPC_PORT, BOOTPS_PORT, NoDhcp)
ArpProbe == ArpFrame(VmMac, BroadcastMac, VmMac, 4, Unspecified)
SpoofedTcp == TcpFrame(SpoofedMac, HostMac, VmIpA, GlobalIp)
ArpReply == ArpFrame(HostMac, VmMac, HostMac, 4, GatewayIp)
HostTcp == TcpFrame(HostMac, VmMac, GlobalIp, VmIpA)
DhcpAck ==
    UdpFrame(HostMac, VmMac, GatewayIp, VmIpA, BOOTPS_PORT, BOOTPC_PORT,
             DhcpMsg(TRUE, Some("Ack"), VmIpA, Some(MaxLeaseTime), None))
DhcpNak ==
    UdpFrame(HostMac, VmMac, GatewayIp, VmIpA, BOOTPS_PORT, BOOTPC_PORT,
             DhcpMsg(TRUE, Some("Nak"), Unspecified, None, None))

\* a run with DHCP traffic without end, one frame waiting at a time, nothing recorded
LeaseTraffic ==
    [vm |-> {DhcpDiscover}, host |-> {DhcpAck, DhcpNak}, queue |-> 1,
     vm_log |-> 0, host_log |-> 0]

\* runs of a few frames, most of them in one direction, all of them recorded
VmTraffic ==
    [vm |-> {DhcpDiscover, ArpProbe, SpoofedTcp}, host |-> {OtherFrame(HostMac, VmMac)},
     queue |-> MaxQueue, vm_log |-> MaxLog, host_log |-> 1]
HostTraffic ==
    [vm |-> {SpoofedTcp}, host |-> {ArpReply, HostTcp, OtherFrame(HostMac, VmMac)},
     queue |-> MaxQueue, vm_log |-> 1, host_log |-> MaxLog]

\* a side sends while the queue has room and, in a recorded run, the record has room
Sends(queue, log, limit) ==
    /\ Len(queue) < traffic.queue
    /\ limit > 0 => Len(log) < limit

InitLoopWith(exposed_ports, sent) ==
    /\ allow = {}
    /\ block = {}
    /\ rules = ProxyNewRules(allow, block)
    /\ vm_lease = None
    /\ now = 0
    /\ run = "running"
    /\ dir = "none"
    /\ frame = None
    /\ snooped = None
    /\ lease_before = None
    /\ effect = "none"
    /\ lease_at_write = None
    /\ InitForwarder(exposed_ports)
    /\ InitRunWith(sent)

InitLoop == InitLoopWith(ExposedPorts(1), LeaseTraffic)
InitFifo == \E sent \in {VmTraffic, HostTraffic} : InitLoopWith(<<>>, sent)

\* what a step of run() leaves alone unless it says otherwise
HandlerIdle ==
    UNCHANGED <<allow, block, rules, vm_lease, now, dir, frame, snooped, lease_before,
                effect, lease_at_write>>

QueuesIdle == UNCHANGED <<vm_q, host_q, vm_in, host_out, host_in, vm_out, batch, traffic>>

\* the record of a frame delivered, and of a frame written, in a recorded run
Logged(log, f, limit) == IF limit > 0 THEN Append(log, f) ELSE log

\* a frame arrives at the VM fd, at the host interface
VmArrives ==
    /\ run = "running"
    /\ Sends(vm_q, vm_in, traffic.vm_log)
    /\ \E f \in traffic.vm :
          /\ vm_q' = Append(vm_q, f)
          /\ vm_in' = Logged(vm_in, f, traffic.vm_log)
    /\ HandlerIdle
    /\ UNCHANGED <<run, pc, ready, sigint, poll_failed, host_q, host_out, host_in,
                   vm_out, batch, traffic>>
    /\ UNCHANGED <<pfvars, telvars, cbvars>>

HostArrives ==
    /\ run = "running"
    /\ Sends(host_q, host_in, traffic.host_log)
    /\ \E f \in traffic.host :
          /\ host_q' = Append(host_q, f)
          /\ host_in' = Logged(host_in, f, traffic.host_log)
    /\ HandlerIdle
    /\ UNCHANGED <<run, pc, ready, sigint, poll_failed, vm_q, vm_in, host_out,
                   vm_out, batch, traffic>>
    /\ UNCHANGED <<pfvars, telvars, cbvars>>

\* a SIGINT recorded by the signal filter that arm has added
SigInt ==
    /\ run = "running" /\ pc # "arm"
    /\ ~sigint
    /\ sigint' = TRUE
    /\ HandlerIdle
    /\ QueuesIdle
    /\ UNCHANGED <<run, pc, ready, poll_failed>>
    /\ UNCHANGED <<pfvars, telvars, cbvars>>

\* run() returns: with the error of the statement it is at, or Ok
Returns(how) == run' = how /\ pc' = "returned"

\* self.poller.arm()?  (add_filter(..).unwrap() inside arm panics)
Arm ==
    /\ run = "running" /\ pc = "arm"
    /\ \E result \in {"Ok", "Err", "Panic"} :
          CASE result = "Ok" -> pc' = "wait" /\ UNCHANGED <<run, poll_failed>>
            [] result = "Err" -> Returns("error") /\ poll_failed' = "arm"
            [] OTHER -> Returns("panicked") /\ poll_failed' = "arm"
    /\ HandlerIdle
    /\ QueuesIdle
    /\ UNCHANGED <<ready, sigint>>
    /\ UNCHANGED <<pfvars, telvars, cbvars>>

\* let (vm_readable, host_readable, interrupt) = self.poller.wait()?
Wait ==
    /\ run = "running" /\ pc = "wait"
    /\ \E result \in {"Ok", "Err"} :
          IF result = "Ok"
          THEN /\ ready' = Ready(vm_q # <<>>, host_q # <<>>, sigint)
               /\ pc' = "vm"
               /\ UNCHANGED <<run, poll_failed>>
          ELSE /\ Returns("error")
               /\ poll_failed' = "wait"
               /\ UNCHANGED ready
    /\ HandlerIdle
    /\ QueuesIdle
    /\ UNCHANGED sigint
    /\ UNCHANGED <<pfvars, telvars, cbvars>>

\* if vm_readable { self.read_from_vm(..)? }: a turn of the loop of
\* read_from_vm, or the step over the statement
VmRead ==
    /\ run = "running" /\ pc = "vm"
    /\ UNCHANGED <<ready, sigint, poll_failed, host_q, vm_in, host_in, vm_out, batch,
                   traffic>>
    /\ UNCHANGED cbvars
    /\ IF ~ready.vm
       THEN /\ pc' = "host"
            /\ HandlerIdle
            /\ UNCHANGED <<run, vm_q, host_out>>
            /\ UNCHANGED <<pfvars, telvars>>
       ELSE \E result \in {"Ok", "Err"} :
            CASE result = "Err" ->
                    /\ Returns("error")
                    /\ HandlerIdle
                    /\ UNCHANGED <<vm_q, host_out>>
                    /\ UNCHANGED <<pfvars, telvars>>
              [] result = "Ok" /\ vm_q = <<>> ->
                    \* WouldBlock
                    /\ pc' = "host"
                    /\ HandlerIdle
                    /\ UNCHANGED <<run, vm_q, host_out>>
                    /\ UNCHANGED <<pfvars, telvars>>
              [] OTHER ->
                    LET f == Head(vm_q)
                    IN  /\ vm_q' = Tail(vm_q)
                        /\ dir' = "vm"
                        /\ frame' = Some(f)
                        /\ process_frame_from_vm(f)
                        /\ host_out' = IF effect' = "written"
                                       THEN Logged(host_out, f, traffic.vm_log)
                                       ELSE host_out
                        /\ pc' = IF run' = "running" THEN "vm" ELSE "returned"

\* batch.packet_sized_bufs(bufs).take(pktcnt): the frames of a batch in the
\* order they were read
ReversedBatch(frames) == [i \in DOMAIN frames |-> frames[Len(frames) + 1 - i]]

packet_sized_bufs(frames) == frames

\* if host_readable { self.read_from_host(..)? }: host.read fills a batch,
\* or the next frame of the batch is processed, or the statement is stepped over
HostRead ==
    /\ run = "running" /\ pc = "host"
    /\ UNCHANGED <<ready, sigint, poll_failed, vm_q, vm_in, host_out, host_in, traffic>>
    /\ UNCHANGED cbvars
    /\ IF ~ready.host
       THEN /\ pc' = "intr"
            /\ HandlerIdle
            /\ UNCHANGED <<run, host_q, vm_out, batch>>
            /\ UNCHANGED <<pfvars, telvars>>
       ELSE IF batch # <<>>
       THEN LET f == Head(batch)
            IN  /\ batch' = Tail(batch)
                /\ dir' = "host"
                /\ frame' = Some(f)
                /\ process_frame_from_host(f)
                /\ vm_out' = IF effect' = "written"
                              THEN Logged(vm_out, f, traffic.host_log)
                              ELSE vm_out
                /\ pc' = IF run' = "running" THEN "host" ELSE "returned"
                /\ UNCHANGED host_q
       ELSE \E result \in {"Ok", "Err"} :
            /\ HandlerIdle
            /\ UNCHANGED vm_out
            /\ UNCHANGED <<pfvars, telvars>>
            /\ CASE result = "Err" ->
                       Returns("error") /\ UNCHANGED <<host_q, batch>>
                 [] result = "Ok" /\ host_q = <<>> ->
                       \* VmnetReadNothing
                       pc' = "intr" /\ UNCHANGED <<run, host_q, batch>>
                 [] OTHER ->
                       /\ batch' = packet_sized_bufs(host_q)
                       /\ host_q' = <<>>
                       /\ UNCHANGED <<run, pc>>

\* if interrupt { return Ok(()) }
IgnoresInterrupt(interrupt) == FALSE

returns_on(interrupt) == interrupt

IntrCheck ==
    /\ run = "running" /\ pc = "intr"
    /\ IF returns_on(ready.intr) THEN Returns("ok") ELSE pc' = "timeout" /\ UNCHANGED run
    /\ HandlerIdle
    /\ QueuesIdle
    /\ UNCHANGED <<ready, sigint, poll_failed>>
    /\ UNCHANGED <<pfvars, telvars, cbvars>>

\* if !vm_readable && !host_readable && !interrupt { self.port_forwarder.tick(..) }
Timeout ==
    /\ run = "running" /\ pc = "timeout"
    /\ pc' = "rearm"
    /\ IF ~ready.vm /\ ~ready.host /\ ~ready.intr
       THEN \E fail_at \in 0..(2 * Len(port_forwardings)) : tick(vm_lease, fail_at)
       ELSE UNCHANGED pfvars
    /\ HandlerIdle
    /\ QueuesIdle
    /\ UNCHANGED <<run, ready, sigint, poll_failed>>
    /\ UNCHANGED <<telvars, cbvars>>

\* self.poller.rearm();  the Result is dropped
RearmIsChecked(result) == result = "Err"

rearm_ends_run(result) == FALSE

Rearm ==
    /\ run = "running" /\ pc = "rearm"
    /\ \E result \in {"Ok", "Err"} :
          /\ poll_failed' = IF result = "Err" THEN "rearm" ELSE poll_failed
          /\ IF rearm_ends_run(result)
             THEN Returns("error")
             ELSE pc' = "wait" /\ UNCHANGED run
    /\ HandlerIdle
    /\ QueuesIdle
    /\ UNCHANGED <<ready, sigint>>
    /\ UNCHANGED <<pfvars, telvars, cbvars>>

PumpStep == Arm \/ Wait \/ VmRead \/ HostRead \/ IntrCheck \/ Timeout \/ Rearm

NextRun == PumpStep \/ VmArrives \/ HostArrives \/ SigInt
SpecRun == InitLoop /\ [][NextRun]_vars

\* The pump thread runs whenever it can, and each drain ends: at some read the
\* VM socket (the interface) has nothing more, frames arriving slower than
\* the pump reads them.
SpecRunFair ==
    /\ SpecRun
    /\ WF_vars(PumpStep)
    /\ WF_vars(VmRead /\ pc' # "vm")
    /\ WF_vars(HostRead /\ pc' # "host")

\* the same loop with more traffic, and no SIGINT
NextFifo == PumpStep \/ VmArrives \/ HostArrives
SpecFifo == InitFifo /\ [][NextFifo]_vars

\* process_frame_from_vm over all frames, leases and a few rule tables
InitVm == InitCall(Policies, 0..MaxTime, Leases(MaxTime), "vm", VmFrames)
SpecVm == InitVm /\ [][CallFromVm]_vars

\* process_frame_from_vm over all rule tables, for frames of the lease holder
InitRules ==
    InitCall((SUBSET PrefixUniverse) \X (SUBSET PrefixUniverse),
             {0}, {RuleLease}, "vm", RuleFrames)
SpecRules == InitRules /\ [][CallFromVm]_vars

\* process_frame_from_host over all frames and leases
InitHost == InitCall({<<{}, {}>>, <<{}, {Net0}>>}, 0..MaxTime, Leases(MaxTime), "host", HostFrames)
SpecHost == InitHost /\ [][CallFromHost]_vars

----------------------------------------------------------------------------
(* Properties *)

F == Unwrap(frame)
Lease == Unwrap(vm_lease)

\* the handler of the last frame has run
Called == IsSome(frame) /\ effect \notin {"none", "pending"}
FromVm == dir = "vm" /\ Called /\ F.eth_ok
FromHost == dir = "host" /\ Called /\ F.eth_ok

\* the write to the other side was called for the frame
WriteCalled == effect \in {"written", "enobufs", "write_error"}

\* the frame of the VM is a well-formed IPv4 packet with the VM's MAC
VmIpv4 == FromVm /\ F.src_mac = VmMac /\ F.ethertype = "Ipv4" /\ F.payload_ok
VmUdp == VmIpv4 /\ F.proto = "Udp" /\ F.udp_ok

\* its source is the address of a lease that has not expired
FromValidLease == IsSome(vm_lease) /\ F.src = Lease.address /\ now < Lease.valid_until

DhcpRequestToBroadcast ==
    /\ F.proto = "Udp" /\ F.udp_ok
    /\ (F.sport = 68 \/ F.dport = 67)
    /\ F.dst = Ip(255, 255, 255, 255)

\* the reference lookup: the rule with the longest prefix among those that
\* contain the address
Matching(ip) == {p \in DOMAIN rules : Contains(p, ip)}
RefLpm(ip) ==
    IF Matching(ip) = {} THEN None
    ELSE Some(CHOOSE p \in Matching(ip) : \A q \in Matching(ip) : q.len <= p.len)

\* C1: a frame read from the VM whose Ethernet source is not vm_mac is never
\* written to the host, whatever its ethertype, payload, the lease and the rules
C1_MacAntiSpoofing ==
    (FromVm /\ F.src_mac # VmMac) => ~WriteCalled

\* a spoofed frame that the rest of the filter would let through
C1_Witness ==
    /\ FromVm /\ F.src_mac # VmMac /\ effect = "dropped"
    /\ F.ethertype = "Ipv4" /\ F.payload_ok
    /\ FromValidLease /\ is_global(F.dst) /\ DOMAIN rules = {}

\* C2: an IPv4 frame written to the host with a unicast destination other
\* than the gateway comes from the address of an unexpired lease, or is a
\* DHCP request to 255.255.255.255
C2_IpAntiSpoofing ==
    (FromVm /\ WriteCalled /\ F.ethertype = "Ipv4"
       /\ ~is_broadcast(F.dst) /\ ~is_multicast(F.dst) /\ F.dst # GatewayIp)
    => (FromValidLease \/ DhcpRequestToBroadcast)

C2_Witness ==
    /\ FromVm /\ effect = "written" /\ F.ethertype = "Ipv4"
    /\ F.dst = GlobalIp /\ FromValidLease

\* C3: a prefix given both as Allow and as Block is held as Block, and a
\* frame of the lease holder whose longest matching prefix it is is dropped
C3_BlockPrecedence ==
    \A p \in allow \cap block :
        /\ p \in DOMAIN rules
        /\ rules[p] = "Block"
        /\ (VmIpv4 /\ FromValidLease /\ RefLpm(F.dst) = Some(p)) => effect = "dropped"

\* Allow 66.66.0.0/16 + Block 66.66.0.0/16, dst 66.66.66.66
C3_Witness ==
    /\ allow = {Net66} /\ block = {Net66}
    /\ VmIpv4 /\ FromValidLease /\ F.dst = Ip66 /\ effect = "dropped"

\* C4: for a frame of the lease holder the lookup is the reference
\* longest-prefix lookup, and when a rule contains the destination the frame
\* is written iff the most specific such rule is Allow
C4_LongestPrefixMatch ==
    (VmIpv4 /\ FromValidLease) =>
        /\ get_lpm(rules, F.dst) = RefLpm(F.dst)
        /\ IsSome(RefLpm(F.dst)) =>
              (WriteCalled <=> rules[Unwrap(RefLpm(F.dst))] = "Allow")

\* Allow 33.33.33.33/32 inside Block 33.33.33.0/24
C4_Witness ==
    /\ allow = {Host33} /\ block = {Net33}
    /\ VmIpv4 /\ FromValidLease /\ F.dst = Ip33 /\ effect = "written"

\* C5 as stated: a DHCP request of the VM to 255.255.255.255 is permitted
\* in every lease state and for every rule table
C5_Original ==
    (VmUdp /\ DhcpRequestToBroadcast) => WriteCalled

\* the rule table decides first for the holder of a valid lease
BlockedByRule ==
    /\ FromValidLease
    /\ IsSome(RefLpm(F.dst))
    /\ rules[Unwrap(RefLpm(F.dst))] = "Block"

\* C5: a DHCP request of the VM to 255.255.255.255 is permitted in every
\* lease state, unless its source is the address of the valid lease and the
\* most specific rule containing 255.255.255.255 is a Block; without a lease
\* the same request to another destination is dropped
C5_DhcpBootstrap ==
    /\ (VmUdp /\ DhcpRequestToBroadcast) => (WriteCalled <=> ~BlockedByRule)
    /\ (VmUdp /\ (F.sport = 68 \/ F.dport = 67) /\ F.dst # Broadcast /\ ~IsSome(vm_lease))
          => effect = "dropped"

\* an expired lease, rules that block everything: the request still passes
C5_Witness ==
    /\ VmUdp /\ DhcpRequestToBroadcast /\ effect = "written"
    /\ IsSome(vm_lease) /\ ~(now < Lease.valid_until)
    /\ F.src = Lease.address
    /\ block = {Net0}

\* C6: a well-formed ARP frame of the VM (IPv4 sender address) is written
\* iff sha = vm_mac and either the lease exists, is unexpired and has the
\* sender address, or there is no lease and the sender address is 0.0.0.0
C6_ArpValidation ==
    (FromVm /\ F.src_mac = VmMac /\ F.ethertype = "Arp" /\ F.payload_ok /\ F.plen = 4)
    => (WriteCalled <=>
          /\ F.sha = VmMac
          /\ \/ IsSome(vm_lease) /\ F.spa = Lease.address /\ now < Lease.valid_until
             \/ ~IsSome(vm_lease) /\ F.spa = Ip(0, 0, 0, 0))

\* an expired lease is held and a probe with spa 0.0.0.0 is dropped
C6_Witness ==
    /\ FromVm /\ F.src_mac = VmMac /\ F.ethertype = "Arp" /\ F.payload_ok /\ F.plen = 4
    /\ F.sha = VmMac /\ F.spa = Ip(0, 0, 0, 0)
    /\ IsSome(vm_lease) /\ ~(now < Lease.valid_until)
    /\ effect = "dropped"

DnsToResolver ==
    F.proto = "Udp" /\ F.udp_ok /\ F.dport = 53 /\ F.dst \in Lease.dns_ips

\* C7: for a frame of the lease holder a rule hit is final: Block drops it
\* even to a global address, the gateway or a learned resolver, Allow
\* permits it even to a non-global address
C7_RuleHitIsFinal ==
    (VmIpv4 /\ FromValidLease /\ IsSome(RefLpm(F.dst))) =>
        /\ (rules[Unwrap(RefLpm(F.dst))] = "Block"
              /\ (is_global(F.dst) \/ F.dst = GatewayIp \/ DnsToResolver))
           => effect = "dropped"
        /\ (rules[Unwrap(RefLpm(F.dst))] = "Allow" /\ ~is_global(F.dst))
           => WriteCalled

\* a blocked global destination next to an allowed one
C7_Witness ==
    /\ VmIpv4 /\ FromValidLease
    /\ allow = {Host33} /\ block = {Net0}
    /\ F.dst = GlobalIp /\ effect = "dropped"

\* C8: a frame of the lease holder that no rule contains is written iff the
\* destination is global, or the gateway, or the frame is UDP to port 53 of
\* a resolver of the lease, or a DHCP request to 255.255.255.255
C8_DefaultPolicy ==
    (VmIpv4 /\ FromValidLease /\ RefLpm(F.dst) = None) =>
        (WriteCalled <=>
            \/ is_global(F.dst)
            \/ F.dst = GatewayIp
            \/ DnsToResolver
            \/ DhcpRequestToBroadcast)

\* a DNS query to a private address that is not a resolver of the lease
C8_Witness ==
    /\ VmUdp /\ FromValidLease /\ RefLpm(F.dst) = None
    /\ F.dport = 53 /\ F.dst = DnsPrivate /\ DnsPrivate \notin Lease.dns_ips
    /\ Lease.dns_ips # {}
    /\ effect = "dropped"

Msg == Unwrap(snooped)
SnoopedAck == FromHost /\ IsSome(snooped) /\ Msg.decodes /\ Msg.msg_type = Some("Ack")
SnoopedNak == FromHost /\ IsSome(snooped) /\ Msg.decodes /\ Msg.msg_type = Some("Nak")

AckLease ==
    /\ IsSome(vm_lease)
    /\ Lease.address = Msg.yiaddr
    /\ Lease.dns_ips = (IF IsSome(Msg.dns)
                        THEN {a \in DnsIps : \E i \in 1..Len(Unwrap(Msg.dns)) : Unwrap(Msg.dns)[i] = a}
                        ELSE {})
    /\ IsSome(Msg.lease_time)
    /\ Lease.valid_until = now + Unwrap(Msg.lease_time)

\* C9 as stated: after every ACK handed to the snooper the lease is the one
\* of the ACK
C9_Original == SnoopedAck => AckLease

\* C9: after every ACK with an AddressLeaseTime option handed to the snooper
\* the lease has the ACK's yiaddr, exactly the resolvers of its option 6
\* (none if absent) and expires option 51 seconds after the processing time
C9_AckSetsLease == (SnoopedAck /\ IsSome(Msg.lease_time)) => AckLease

\* an ACK replaces a lease with other resolvers
C9_Witness ==
    /\ SnoopedAck /\ IsSome(Msg.lease_time) /\ Msg.dns = Some(<<DnsGlobal>>)
    /\ IsSome(lease_before) /\ Unwrap(lease_before).dns_ips = {DnsPrivate}
    /\ Lease.dns_ips = {DnsGlobal}

\* C10: after a NAK handed to the snooper there is no lease
C10_NakClearsLease == SnoopedNak => vm_lease = None

C10_Witness == SnoopedNak /\ IsSome(lease_before) /\ vm_lease = None

\* C11: register_dhcp_reply leaves the lease as it was when the payload does
\* not decode, when it is an ACK without option 51, and when its message type
\* is neither ACK nor NAK
C11_IgnoredReplies ==
    (FromHost /\ IsSome(snooped)
       /\ \/ ~Msg.decodes
          \/ Msg.msg_type = Some("Ack") /\ Msg.lease_time = None
          \/ Msg.msg_type \notin {Some("Ack"), Some("Nak")})
    => vm_lease = lease_before

\* a lease for one address is held and an ACK for the other, without
\* option 51, goes by
C11_Witness ==
    /\ FromHost /\ IsSome(snooped) /\ Msg.decodes
    /\ Msg.msg_type = Some("Ack") /\ Msg.lease_time = None
    /\ IsSome(lease_before) /\ Unwrap(lease_before).address # Msg.yiaddr
    /\ Unwrap(lease_before).dns_ips # {}
    /\ vm_lease = lease_before


\* C12: a DHCP reply that changes the lease is snooped before the frame is
\* written to the VM: vm.write is called with the lease already updated, and
\* the next frame read from the VM, a reaction to that frame included, is
\* filtered against the lease the write saw.
C12_SnoopBeforeForward ==
    [][ /\ (FromHost' /\ WriteCalled')
           => lease_at_write' = Some(vm_lease')
        /\ (dir = "host" /\ IsSome(lease_at_write) /\ dir' = "vm")
           => lease_before' = Unwrap(lease_at_write) ]_vars

C12_Witness ==
    /\ FromHost /\ WriteCalled /\ IsSome(snooped)
    /\ vm_lease # lease_before
    /\ IsSome(vm_lease)
    /\ lease_at_write = Some(vm_lease)

\* C13: a well-formed frame from the host is written to the VM if and only
\* if its ethertype is ARP or IPv4, whatever its destination MAC, the lease
\* and the rule table are; a frame of another ethertype is neither written
\* nor snooped.
C13_HostFilter ==
    FromHost =>
        /\ WriteCalled <=> F.ethertype \in {"Arp", "Ipv4"}
        /\ F.ethertype \notin {"Arp", "Ipv4"}
              => effect = "dropped" /\ snooped = None /\ vm_lease = lease_before

C13_Witness ==
    /\ FromHost /\ WriteCalled
    /\ F.ethertype = "Arp"
    /\ F.dst_mac # VmMac
    /\ vm_lease = None
    /\ block = {Net0}

\* C14: when the write to the VM fails with ENOBUFS the frame is dropped, no
\* error is returned and the pump goes on; any other error of the write is
\* returned by process_frame_from_host and ends run() with it.
C14_EnobufsSwallowed ==
    FromHost =>
        /\ effect = "enobufs" => run = "running"
        /\ effect = "write_error" => run = "error"

C14_Witness ==
    /\ FromHost /\ effect = "enobufs"
    /\ F.ethertype = "Ipv4" /\ IsSome(snooped)
    /\ run = "running"

\* the pump has ended with the error of a write to the VM
C14_WitnessError == FromHost /\ effect = "write_error" /\ run = "error"

\* the numbers of the forwardings, and the fields of forwarding i
Pfs == DOMAIN port_forwardings
Installed(i) == port_forwardings[i].forwarding_to_addr
External(i) == port_forwardings[i].exposed_port.external_port
Internal(i) == port_forwardings[i].exposed_port.internal_port

\* the rule *:external -> addr:internal of forwarding i is programmed
Programmed(i, addr) ==
    [external |-> External(i), addr |-> addr, internal |-> Internal(i)] \in host_rules

\* the lease is there and has not expired
LeaseValid == IsSome(vm_lease) /\ valid(Lease)

\* some forwarding is installed for an address that is not the lease's
\* any more: the lease has gone from that address to a new one
Flipped == LeaseValid /\ \E i \in Pfs : IsSome(Installed(i)) /\ Installed(i) # Some(Lease.address)

\* every forwarding is installed for the address of the lease, on the host too
AllInstalledForLease ==
    \A i \in Pfs : Installed(i) = Some(Lease.address) /\ Programmed(i, Lease.address)

\* the calls of the last tick that are about an external port
CallsFor(external_port) == SelectSeq(tick_calls, LAMBDA c : c.external = external_port)

\* the last tick was made with the latch open and none of its calls failed
NoFailure == ~failed /\ \A k \in DOMAIN tick_calls : tick_calls[k].ok

NoTwoRules == \A r1, r2 \in host_rules : r1.external = r2.external => r1 = r2

\* every add of the last tick was issued with no rule for its external port
AddsOnlyWhenFree ==
    \A k \in DOMAIN tick_calls : tick_calls[k].op = "add" => ~tick_calls[k].had_rule

\* the last tick issued, for forwarding i, one remove and then one add for
\* the address of the lease
RemoveThenAdd(i) ==
    LET calls == CallsFor(External(i))
    IN  /\ Len(calls) = 2
        /\ calls[1].op = "remove"
        /\ calls[2].op = "add"
        /\ calls[2].addr = Lease.address
        /\ calls[2].internal = Internal(i)

\* the forwardings installed for an address that is not the lease's
Outdated == {i \in Pfs : IsSome(Installed(i)) /\ Installed(i) # Some(Lease.address)}

C18_TickIdempotent ==
    [][ ( /\ Tick
          /\ tick_saw = Some(View(vm_lease))
          /\ (LeaseValid \/ vm_lease = None) )
        => tick_calls' = <<>> ]_vars

\* a second tick has found every forwarding installed for the lease
C18_Witness ==
    /\ Pfs # {} /\ LeaseValid /\ ~failed
    /\ tick_saw = Some(View(vm_lease))
    /\ AllInstalledForLease
    /\ tick_calls = <<>>

\* the lease is gone and a second tick has found nothing left to remove
C18_WitnessNoLease ==
    /\ Pfs # {} /\ vm_lease = None /\ ~failed
    /\ tick_saw = Some(View(vm_lease))
    /\ host_rules = {}
    /\ tick_calls = <<>>
    /\ lease_before # None

\* C19: once a host mutation has returned an error, failed is true and
\* stays true, and every later tick issues no host mutation and changes no
\* installed_for, whatever the lease does.
C19_FailureLatch ==
    [][ /\ (Tick /\ \E k \in DOMAIN tick_calls' : ~tick_calls'[k].ok) => failed'
        /\ failed => /\ failed'
                     /\ port_forwardings' = port_forwardings
                     /\ host_rules' = host_rules
                     /\ Tick => tick_calls' = <<>> ]_vars

\* a tick after the latch has left a forwarding installed for an old address
C19_Witness ==
    /\ failed /\ tick_calls = <<>>
    /\ tick_saw = Some(View(vm_lease))
    /\ LeaseValid
    /\ \E i \in Pfs : IsSome(Installed(i)) /\ Installed(i) # Some(Lease.address)

\* the tick is given no lease, or one whose deadline has passed
LeaseLost == ~LeaseValid

\* installed forwardings before the step, the calls after it: one remove for
\* each installed forwarding, nothing else, and nothing installed any more
RemovedAll ==
    /\ \A k \in DOMAIN tick_calls' :
          /\ tick_calls'[k].op = "remove"
          /\ \E i \in Pfs : IsSome(Installed(i)) /\ External(i) = tick_calls'[k].external
    /\ \A i \in Pfs : Len(CallsFor(External(i))') = (IF IsSome(Installed(i)) THEN 1 ELSE 0)
    /\ \A i \in Pfs : Installed(i)' = None

\* C20 as stated: fails for a tick made after the latch has closed, which
\* issues no call, so that none fails, and removes nothing
C20_Original ==
    [][ (Tick /\ LeaseLost /\ \A k \in DOMAIN tick_calls' : tick_calls'[k].ok)
        => RemovedAll ]_vars

\* C20: a tick that is given no lease, or a lease whose deadline has passed,
\* is made with the latch open and has no host call fail, issues exactly one
\* remove_rule(external) for each forwarding with installed_for # None, none
\* for the others, no add_rule, and leaves every installed_for == None.
C20_LeaseLoss ==
    [][ (Tick /\ LeaseLost /\ ~failed /\ NoFailure') => RemovedAll ]_vars

\* the lease has expired and the last tick has removed every forwarding
C20_Witness ==
    /\ Len(port_forwardings) = MaxExposedPorts
    /\ IsSome(vm_lease) /\ ~valid(Lease) /\ NoFailure
    /\ tick_saw = Some(View(vm_lease))
    /\ Len(tick_calls) = MaxExposedPorts
    /\ \A k \in DOMAIN tick_calls : tick_calls[k].op = "remove"
    /\ \A i \in Pfs : Installed(i) = None
    /\ host_rules = {}

\* C24: the handler of a frame read from the VM leaves the lease as it is,
\* whatever the frame is, and the handler of a frame read from the host
\* changes it only if the frame is addressed to the VM's MAC, is IPv4, comes
\* from the gateway's address, is UDP and has source port 67 or destination
\* port 68.
C24_LeaseOnlyFromHostReplies ==
    /\ FromVm => vm_lease = lease_before /\ snooped = None
    /\ (FromHost /\ vm_lease # lease_before) =>
          /\ F.dst_mac = VmMac
          /\ F.ethertype = "Ipv4" /\ F.payload_ok
          /\ F.src = GatewayIp
          /\ F.proto = "Udp" /\ F.udp_ok
          /\ (F.sport = 67 \/ F.dport = 68)

\* the VM has sent a NAK that looks like the gateway's and it was written
\* to the host, and the lease is still there
C24_Witness ==
    /\ FromVm /\ effect = "written" /\ IsSome(lease_before)
    /\ F.ethertype = "Ipv4" /\ F.src = Unwrap(lease_before).address
    /\ F.sport = 67 /\ F.dport = 68
    /\ F.dhcp.msg_type = Some("Nak")
    /\ IsSome(vm_lease) /\ vm_lease = lease_before

\* a reply of the gateway to the VM has replaced the lease
C24_WitnessHost ==
    /\ FromHost /\ IsSome(lease_before) /\ IsSome(vm_lease)
    /\ vm_lease # lease_before
    /\ F.dst_mac = VmMac /\ F.src = GatewayIp /\ F.dport = 68

\* the lease is held and its deadline has passed
Expired == IsSome(vm_lease) /\ ~(now < Lease.valid_until)

\* C25: while the lease held has expired, every ARP frame of the VM and
\* every IPv4 frame of the VM that is not a DHCP request to 255.255.255.255
\* is dropped, whatever its destination and the rules are.  (An ARP frame
\* with a sender address that is not 4 bytes long is not written either:
\* it ends the process.)
C25_ExpiryClosesFilter ==
    (FromVm /\ Expired) =>
        /\ (F.ethertype = "Arp" /\ ~(F.payload_ok /\ F.src_mac = VmMac
                                     /\ F.sha = VmMac /\ F.plen # 4))
              => effect = "dropped"
        /\ F.ethertype = "Arp" => ~WriteCalled
        /\ (F.ethertype = "Ipv4" /\ ~(F.payload_ok /\ DhcpRequestToBroadcast))
              => effect = "dropped"

\* a DNS query of the lease holder to a resolver of the expired lease,
\* under rules that allow everything, is dropped
C25_Witness ==
    /\ VmUdp /\ Expired /\ effect = "dropped"
    /\ F.src = Lease.address
    /\ F.dport = 53 /\ F.dst \in Lease.dns_ips
    /\ allow = {Net0} /\ block = {}

\* C27: over the life of the process the ENOBUFS message is sent to
\* telemetry at most once, however many writes to the VM fail with ENOBUFS.
C27_OneShotTelemetry == enobufs_reports <= 1

\* ---------------------------------------------------------------------------
\* The event loop of run()
\* ---------------------------------------------------------------------------

\* C28: once an operation of the kernel event queue (arm, wait, rearm) has
\* failed, run() has ended with an error (or a panic) and waits no more.
C28_PollFailureIsFatal ==
    poll_failed # "none" => pc = "returned" /\ run \in {"error", "panicked"}


\* ---------------------------------------------------------------------------
\* Host: the event callback, read and finalize
\* ---------------------------------------------------------------------------

InitHostIface == InitLoopWith(<<>>, NoTraffic)

PollIdle ==
    /\ HandlerIdle
    /\ UNCHANGED <<run, pfvars, telvars, loopvars>>

\* a packet arrives at the vmnet interface
PacketArrives ==
    /\ callback_set = "set"
    /\ packets < MaxPackets
    /\ packets' = packets + 1
    /\ UNCHANGED <<cb, wake_bytes, callback_set, hpc, finalized, clear_calls, teardown_calls>>
    /\ PollIdle

\* The framework calls the callback, one call at a time (it may deliver an
\* event for packets the pump has read already):
\* new_packets_tx.send(&[0; 1]).ok()
CallbackWakes ==
    /\ callback_set = "set"
    /\ cb = "idle"
    /\ wake_bytes < MaxWakeBytes
    /\ cb' = "woke"
    /\ wake_bytes' = wake_bytes + 1
    /\ UNCHANGED <<packets, callback_set, hpc, finalized, clear_calls, teardown_calls>>
    /\ PollIdle

\* callback_can_continue_rx.recv().unwrap(): the callback waits for a send
ReturnsAtOnce == FALSE

callback_waits == TRUE

CallbackBlocks ==
    /\ cb = "woke"
    /\ cb' = IF callback_waits THEN "blocked" ELSE "idle"
    /\ UNCHANGED <<wake_bytes, packets, callback_set, hpc, finalized, clear_calls,
                   teardown_calls>>
    /\ PollIdle

\* wait() reports the wake fd readable and run() calls read_from_host
HostReadable ==
    /\ hpc = "out"
    /\ wake_bytes > 0
    /\ hpc' = "read"
    /\ UNCHANGED <<cb, wake_bytes, packets, callback_set, finalized, clear_calls,
                   teardown_calls>>
    /\ PollIdle

\* Host::read up to the send: the dummy datagram is dequeued (if any) and the
\* interface is read
HostIfaceRead ==
    /\ hpc = "read"
    /\ wake_bytes' = IF wake_bytes > 0 THEN wake_bytes - 1 ELSE 0
    /\ \E result \in {"Ok", "Err"} :
          CASE result = "Err" -> hpc' = "returned" /\ UNCHANGED packets
            [] result = "Ok" /\ packets = 0 ->
                  \* VmnetReadNothing
                  hpc' = "send" /\ UNCHANGED packets
            [] OTHER -> hpc' = "read" /\ packets' = packets - 1
    /\ UNCHANGED <<cb, callback_set, finalized, clear_calls, teardown_calls>>
    /\ PollIdle

\* Host::read: let _ = self.callback_can_continue_tx.send(()), which returns
\* when the callback receives
HostIfaceSend ==
    /\ hpc = "send"
    /\ cb = "blocked"
    /\ cb' = "idle"
    /\ hpc' = "out"
    /\ UNCHANGED <<wake_bytes, packets, callback_set, finalized, clear_calls, teardown_calls>>
    /\ PollIdle

\* run() returns, on SIGINT or with an error
RunReturns ==
    /\ hpc = "out"
    /\ hpc' = "returned"
    /\ UNCHANGED <<cb, wake_bytes, packets, callback_set, finalized, clear_calls,
                   teardown_calls>>
    /\ PollIdle

\* the statement of finalize() the pump is at, called by the owner or by drop
FinalizeAt(caller, statement) ==
    CASE caller = "owner" /\ statement = "clear" -> "clear"
      [] caller = "owner" /\ statement = "send" -> "finalize_send"
      [] caller = "owner" /\ statement = "teardown" -> "teardown"
      [] caller = "owner" /\ statement = "return" -> "returned"
      [] caller = "drop" /\ statement = "clear" -> "drop_clear"
      [] caller = "drop" /\ statement = "send" -> "drop_send"
      [] caller = "drop" /\ statement = "teardown" -> "drop_teardown"
      [] OTHER -> "dropped"

\* host.finalize() called by the owner of the Host
FinalizeCalled ==
    /\ hpc = "returned"
    /\ clear_calls < MaxFinalize
    /\ hpc' = FinalizeAt("owner", "clear")
    /\ UNCHANGED <<cb, wake_bytes, packets, callback_set, finalized, clear_calls,
                   teardown_calls>>
    /\ PollIdle

\* impl Drop for Host: if !self.finalized { let _ = self.finalize(); }
Drop ==
    /\ hpc = "returned"
    /\ hpc' = IF finalized THEN "dropped" ELSE FinalizeAt("drop", "clear")
    /\ UNCHANGED <<cb, wake_bytes, packets, callback_set, finalized, clear_calls,
                   teardown_calls>>
    /\ PollIdle

\* finalize: self.interface.clear_event_callback()?  Whether the framework
\* drops a callback that is not running, and the Receiver it owns, when it
\* is cleared or later, is the framework's business.
ClearEventCallback(caller) ==
    /\ hpc = FinalizeAt(caller, "clear")
    /\ clear_calls' = clear_calls + 1
    /\ \E result \in {"Ok", "Err"} :
          IF result = "Ok"
          THEN /\ hpc' = FinalizeAt(caller, "send")
               /\ callback_set' \in
                      IF cb = "idle" THEN {"cleared", "dropped"} ELSE {"cleared"}
          ELSE /\ hpc' = FinalizeAt(caller, "return")
               /\ UNCHANGED callback_set
    /\ UNCHANGED <<cb, wake_bytes, packets, finalized, teardown_calls>>
    /\ PollIdle

\* finalize: let _ = self.callback_can_continue_tx.send(()): the callback
\* receives and returns, or the Receiver is gone and send returns an error
FinalizeSend(caller) ==
    /\ hpc = FinalizeAt(caller, "send")
    /\ \/ /\ cb = "blocked"
          /\ cb' = "idle"
          /\ callback_set' \in {"cleared", "dropped"}
       \/ /\ callback_set = "dropped"
          /\ UNCHANGED <<cb, callback_set>>
    /\ hpc' = FinalizeAt(caller, "teardown")
    /\ UNCHANGED <<wake_bytes, packets, finalized, clear_calls, teardown_calls>>
    /\ PollIdle

\* finalize: self.interface.finalize()?; self.finalized = true
InterfaceFinalize(caller) ==
    /\ hpc = FinalizeAt(caller, "teardown")
    /\ teardown_calls' = teardown_calls + 1
    /\ \E result \in {"Ok", "Err"} :
          finalized' = IF result = "Ok" THEN TRUE ELSE finalized
    /\ hpc' = FinalizeAt(caller, "return")
    /\ UNCHANGED <<cb, wake_bytes, packets, callback_set, clear_calls>>
    /\ PollIdle

Finalize ==
    \E caller \in {"owner", "drop"} :
        ClearEventCallback(caller) \/ FinalizeSend(caller) \/ InterfaceFinalize(caller)

NextHostIface ==
    \/ PacketArrives \/ CallbackWakes \/ CallbackBlocks
    \/ HostReadable \/ HostIfaceRead \/ HostIfaceSend
    \/ RunReturns \/ FinalizeCalled \/ Drop \/ Finalize

SpecHostIface == InitHostIface /\ [][NextHostIface]_vars

\* wait has reported the interrupt and run() has not returned yet
Interrupted == run = "running" /\ ready.intr

\* the rest of the iteration: the two drains and the check of the interrupt,
\* no tick, no rearm and no wait
FinishesIteration ==
    /\ pc' \in {"vm", "host", "intr", "returned"}
    /\ tick_calls' = tick_calls

Reconciled == tick_saw = Some(View(vm_lease))

\* C30: whenever the snooper holds a lease that no tick has seen, tick is
\* eventually called with it (or run() returns), whatever the traffic.
C30_TickNotStarved ==
    (run = "running" /\ IsSome(vm_lease) /\ ~Reconciled) ~> (Reconciled \/ pc = "returned")

RECURSIVE IsSubsequence(_, _)
IsSubsequence(s, t) ==
    IF s = <<>> THEN TRUE
    ELSE IF t = <<>> THEN FALSE
    ELSE IF Head(s) = Head(t) THEN IsSubsequence(Tail(s), Tail(t))
    ELSE IsSubsequence(s, Tail(t))

\* the frames delivered and already processed: all but the waiting ones,
\* which are the last delivered, in the order of their delivery
Processed(delivered, waiting) ==
    SubSeq(delivered, 1, Len(delivered) - Len(waiting))

InDeliveryOrder(delivered, waiting) ==
    /\ Len(waiting) <= Len(delivered)
    /\ SubSeq(delivered, Len(delivered) - Len(waiting) + 1, Len(delivered)) = waiting

Recorded == traffic.vm_log > 0

\* C26: in each direction the frames are processed in the order of their
\* delivery and the frames written are a subsequence of the frames processed;
\* the host side is read only after the drain of the VM side has ended, with
\* nothing left to read.
C26_PerDirectionFifo ==
    /\ [](Recorded =>
            /\ InDeliveryOrder(vm_in, vm_q)
            /\ IsSubsequence(host_out, Processed(vm_in, vm_q))
            /\ InDeliveryOrder(host_in, batch \o host_q)
            /\ IsSubsequence(vm_out, Processed(host_in, batch \o host_q)))
    /\ [][ /\ host_out' # host_out => pc = "vm"
           /\ (vm_out' # vm_out \/ batch' # batch) => pc = "host"
           /\ (pc # "host" /\ pc' = "host") => pc = "vm" /\ (ready.vm => vm_q = <<>>) ]_vars

C26_Witness ==
    /\ Len(host_in) = MaxLog /\ batch \o host_q = <<>>
    /\ Len(vm_out) = 2 /\ vm_out[1] # vm_out[2]

C26_WitnessVm ==
    /\ Len(vm_in) = MaxLog /\ vm_q = <<>>
    /\ Len(host_out) = 2 /\ host_out[1] # host_out[2]

\* the pump is inside the drain of the host side
Draining == hpc \in {"read", "send"}

\* a callback is in flight: called by the framework and not returned yet
InFlight == cb # "idle"

\* C22: at most one wake byte is pending; while the pump drains the host
\* side the callback that woke it is in flight and held; a callback at its
\* recv returns only by the send that follows VmnetReadNothing or by the
\* send of finalize.
C22_CallbackHeldDuringDrain ==
    /\ [](wake_bytes <= 1)
    /\ [](Draining => InFlight)
    /\ [](callback_set = "set" /\ wake_bytes > 0 => InFlight)
    /\ [][cb = "blocked" /\ cb' # "blocked" =>
              /\ hpc \in {"send", "finalize_send", "drop_send"}
              /\ cb' = "idle"]_vars
    /\ [][InFlight /\ ~InFlight' => hpc' # "read"]_vars

C22_Witness == hpc = "read" /\ cb = "blocked" /\ packets > 0 /\ wake_bytes = 0

\* C23: once a finalize() has succeeded, no later call of finalize(), from
\* the owner or from drop, calls clear_event_callback or interface.finalize.
C23_FinalizeIdempotent ==
    [][finalized => clear_calls' = clear_calls /\ teardown_calls' = teardown_calls]_vars

====
